---------------------------- MODULE Spec2Model ----------------------------
(***************************************************************************)
(* Model of examples/claude-api-integration.py: the tool-orchestration     *)
(* loop chat_with_claude, the bridge client call_david_gpt and the         *)
(* module-level session field conversation_id.                             *)
(*                                                                         *)
(* The script is single-threaded.  Its state changes only between the      *)
(* blocking external calls, so one action models the code that runs from   *)
(* the return of one external call to the issue of the next one:           *)
(*   Startup         lines 20-30   (module body: credential check, session *)
(*                   field)                                                *)
(*   StartExchange   lines 91-107  (entry, first chat-service call)        *)
(*   ChatReturns     lines 110-117 and 146-154 (loop test, tool lookup,    *)
(*                   bridge POST, or the final return)                     *)
(*   ChatFails       the chat-service call raises                          *)
(*   BridgeResponds  lines 55-62 and 119-144 (status check, result,        *)
(*                   identifier store, preview, appends, next chat call)   *)
(* CallSpec is a second specification: call_david_gpt alone, called with   *)
(* every argument its signature admits (CallDavidGpt, CallResponds).       *)
(* The chat service and the bridge are the environment: their answers are  *)
(* drawn from the finite sets Responses and HttpResponses.                 *)
(***************************************************************************)
EXTENDS Integers, Sequences, FiniteSets, TLC

(* ------------------------------ bounds -------------------------------- *)
\* Number of exchanges (calls of chat_with_claude) in one process run.
MaxExchanges == 2
\* Number of tool_use answers the chat service gives within one exchange.
MaxToolRounds == 2

(* ------------------------------ values -------------------------------- *)
\* Python's None.
None == "<None>"

\* Python truthiness of an Optional[str]: None and "" are falsy.
Truthy(x) == x # None /\ x # ""

\* Content blocks of a chat-service response.
TextBlock(t) == [type |-> "text", text |-> t]
ToolUseBlock(i, n, m) ==
    [type |-> "tool_use", id |-> i, name |-> n, input |-> [message |-> m]]

T1 == TextBlock("t1")
T2 == TextBlock("t2")
U1 == ToolUseBlock("tu1", "ask_david_gpt", "q1")
U2 == ToolUseBlock("tu2", "other_tool", "q2")

\* The content lists the chat service answers with.
Contents ==
    { <<>>, <<T1>>, <<T2, T1>>, <<T1, U1>>, <<U2, U1>>, <<U1, T2, U2>> }

StopReasons == {"tool_use", "end_turn", "max_tokens"}

Responses == [stop_reason : StopReasons, content : Contents]

NoResponse == [stop_reason |-> "none", content |-> <<>>]

\* The user messages handed to chat_with_claude.
UserMessages == {"m1", "m2"}

\* JSON bodies of a bridge answer: every field may be missing.
BridgeIds == {"", "c1", "c2"}
BridgeTexts == {"r1", "r2"}
BridgeCitations == {<<"doc1">>}
BridgeDatas ==
    { [f \in S |-> CASE f = "conversation_id" -> i
                     [] f = "response" -> r
                     [] OTHER -> c] :
        S \in SUBSET {"conversation_id", "response", "citations"},
        i \in BridgeIds, r \in BridgeTexts, c \in BridgeCitations }

HttpResponses == [status : {200, 500}, data : BridgeDatas]

\* What os.getenv("ANTHROPIC_API_KEY") yields: None when the variable is unset.
ApiKeys == {None, "", "sk-key"}

NoHttp == [status |-> 0, data |-> <<>>]
NoRequest == [action |-> "none"]
NoArgs == [message |-> None, conversation_id |-> None]
NoResult == [conversation_id |-> None, response |-> None, citations |-> <<>>]

(* ----------------------------- variables ------------------------------ *)
VARIABLES
    ANTHROPIC_API_KEY, \* os.getenv("ANTHROPIC_API_KEY"), read at startup
    user_message,     \* argument of the running call of chat_with_claude
    pc,               \* position of the one thread of control
    conversation_id,  \* the module-level session field
    messages,         \* the local transcript of the running exchange
    response,         \* the local holding the last chat-service response
    chatMessages,     \* transcript passed to the latest chat-service call
    bridgeReq,        \* JSON body of the latest bridge POST
    bridgeResp,       \* the latest bridge HTTP response
    cdgArgs,          \* arguments of the latest call of call_david_gpt
    result,           \* the dictionary call_david_gpt returned last
    returned,         \* value returned by chat_with_claude
    error,            \* exception that left chat_with_claude
    nChat,            \* chat-service calls made in the running exchange
    nBridge,          \* bridge POSTs made in the running exchange
    exchanges,        \* exchanges started in this process run
    bridgeCalled,     \* history: a bridge POST was made in this process run
    lastRet,          \* history: latest identifier a 2xx bridge answer held
    lastNonEmptyRet   \* history: latest non-empty identifier among those

vars == << ANTHROPIC_API_KEY, user_message, pc, conversation_id, messages, response, chatMessages, bridgeReq,
           bridgeResp, cdgArgs, result, returned, error, nChat, nBridge, exchanges,
           bridgeCalled, lastRet, lastNonEmptyRet >>

(* ------------------------- call_david_gpt ----------------------------- *)
\* Variant: the identifier is never sent, every request opens a conversation.
call_david_gpt_request_AlwaysNew(message, cid) ==
    [action |-> "new_conversation", message |-> message, persona |-> "david"]

\* Variant: the two request shapes are exchanged.
call_david_gpt_request_Swapped(message, cid) ==
    IF Truthy(cid)
    THEN [action |-> "new_conversation",
          message |-> message,
          persona |-> "david"]
    ELSE [action |-> "reply_to_conversation",
          conversation_id |-> cid,
          message |-> message]

\* The JSON body call_david_gpt posts.
call_david_gpt_request(message, cid) ==
    IF Truthy(cid)
    THEN [action |-> "reply_to_conversation",
          conversation_id |-> cid,
          message |-> message]
    ELSE [action |-> "new_conversation",
          message |-> message,
          persona |-> "david"]

\* Variant: the status is never checked.
raise_for_status_Never(http) == FALSE

\* requests.Response.raise_for_status: raises on a 4xx or 5xx status.
raise_for_status(http) == http.status >= 400 /\ http.status < 600

\* dict.get(key, default)
DictGet(data, key, default) ==
    IF key \in DOMAIN data THEN data[key] ELSE default

\* The dictionary call_david_gpt returns.
call_david_gpt_result(data) ==
    [conversation_id |-> DictGet(data, "conversation_id", None),
     response |-> DictGet(data, "response", None),
     citations |-> DictGet(data, "citations", <<>>)]

(* ------------------------- chat_with_claude --------------------------- *)
\* Variant: only a block naming the declared tool is looked up.
HasToolUse_DeclaredOnly(content) ==
    \E i \in 1..Len(content) :
        /\ content[i].type = "tool_use"
        /\ \A j \in 1..(i - 1) : content[j].type # "tool_use"
        /\ content[i].name = "ask_david_gpt"

\* Whether next(...) at the tool lookup finds a block.
HasToolUse(content) ==
    \E i \in 1..Len(content) : content[i].type = "tool_use"

\* Variant: the last tool_use block is taken.
LastToolUse(content) ==
    content[CHOOSE i \in 1..Len(content) :
                /\ content[i].type = "tool_use"
                /\ \A j \in (i + 1)..Len(content) : content[j].type # "tool_use"]

\* next(block for block in response.content if block.type == "tool_use")
FirstToolUse(content) ==
    content[CHOOSE i \in 1..Len(content) :
                /\ content[i].type = "tool_use"
                /\ \A j \in 1..(i - 1) : content[j].type # "tool_use"]

\* Variant: the last block with a text is taken.
LastText(content) ==
    IF \E i \in 1..Len(content) : "text" \in DOMAIN content[i]
    THEN content[CHOOSE i \in 1..Len(content) :
                    /\ "text" \in DOMAIN content[i]
                    /\ \A j \in (i + 1)..Len(content) :
                          "text" \notin DOMAIN content[j]].text
    ELSE None

\* Variant: the default of the lookup is the empty string.
FirstText_EmptyDefault(content) ==
    IF \E i \in 1..Len(content) : "text" \in DOMAIN content[i]
    THEN content[CHOOSE i \in 1..Len(content) :
                    /\ "text" \in DOMAIN content[i]
                    /\ \A j \in 1..(i - 1) : "text" \notin DOMAIN content[j]].text
    ELSE ""

\* next((block.text for block in response.content if hasattr(block, "text")),
\*      None)
FirstText(content) ==
    IF \E i \in 1..Len(content) : "text" \in DOMAIN content[i]
    THEN content[CHOOSE i \in 1..Len(content) :
                    /\ "text" \in DOMAIN content[i]
                    /\ \A j \in 1..(i - 1) : "text" \notin DOMAIN content[j]].text
    ELSE None

\* Variant: the identifier is stored only while none is stored yet.
StoreConversationId_FirstWins(cur, res) ==
    IF Truthy(cur) THEN cur
    ELSE IF Truthy(res.conversation_id) THEN res.conversation_id ELSE cur

\* Variant: the identifier is stored without the test.
StoreConversationId_Unconditional(cur, res) == res.conversation_id

\* if result["conversation_id"]: conversation_id = result["conversation_id"]
StoreConversationId(cur, res) ==
    IF Truthy(res.conversation_id) THEN res.conversation_id ELSE cur

\* result['response'][:200] raises TypeError when the response is None.
PreviewRaises(res) == res.response = None

\* Variant: the tool-result turn is appended before the assistant turn.
AppendToolTurns_Swapped(msgs, content, tool_use, res) ==
    msgs \o << [role |-> "user",
                content |-> << [type |-> "tool_result",
                                tool_use_id |-> tool_use.id,
                                content |-> res.response] >>],
               [role |-> "assistant", content |-> content] >>

\* The two messages.append calls of the loop body.
AppendToolTurns(msgs, content, tool_use, res) ==
    msgs \o << [role |-> "assistant", content |-> content],
               [role |-> "user",
                content |-> << [type |-> "tool_result",
                                tool_use_id |-> tool_use.id,
                                content |-> res.response] >>] >>

(* ------------------------------- Init --------------------------------- *)
Init ==
    /\ ANTHROPIC_API_KEY \in ApiKeys
    /\ user_message = None
    /\ pc = "startup"
    /\ conversation_id = None
    /\ messages = <<>>
    /\ response = NoResponse
    /\ chatMessages = <<>>
    /\ bridgeReq = NoRequest
    /\ bridgeResp = NoHttp
    /\ cdgArgs = NoArgs
    /\ result = NoResult
    /\ returned = None
    /\ error = None
    /\ nChat = 0
    /\ nBridge = 0
    /\ exchanges = 0
    /\ bridgeCalled = FALSE
    /\ lastRet = None
    /\ lastNonEmptyRet = None

(* ------------------------------ actions ------------------------------- *)
\* Variant: the credential is never tested.
CredentialMissing_Never(key) == FALSE

\* if not ANTHROPIC_API_KEY
CredentialMissing(key) == ~Truthy(key)

\* The module body runs: without a credential it raises ValueError and the
\* process ends; otherwise the client and the session field are set up.
Startup ==
    /\ pc = "startup"
    /\ IF CredentialMissing(ANTHROPIC_API_KEY)
       THEN /\ error' = "ValueError"
            /\ pc' = "fatal"
       ELSE /\ pc' = "idle"
            /\ UNCHANGED error
    /\ UNCHANGED << ANTHROPIC_API_KEY, user_message, conversation_id, messages,
                    response, chatMessages, bridgeReq, bridgeResp, cdgArgs,
                    result, returned, nChat, nBridge, exchanges, bridgeCalled,
                    lastRet, lastNonEmptyRet >>

\* Variant: the transcript is kept from one exchange to the next.
StartExchange_KeepsTranscript(um) ==
    /\ pc \in {"idle", "done", "raised"}
    /\ exchanges < MaxExchanges
    /\ exchanges' = exchanges + 1
    /\ user_message' = um
    /\ messages' = Append(messages, [role |-> "user", content |-> um])
    /\ chatMessages' = messages'
    /\ nChat' = 1
    /\ nBridge' = 0
    /\ response' = NoResponse
    /\ bridgeReq' = NoRequest
    /\ bridgeResp' = NoHttp
    /\ cdgArgs' = NoArgs
    /\ result' = NoResult
    /\ returned' = None
    /\ error' = None
    /\ pc' = "awaiting"
    /\ UNCHANGED << ANTHROPIC_API_KEY, conversation_id, bridgeCalled, lastRet,
                    lastNonEmptyRet >>

\* chat_with_claude(user_message) is entered and issues its first
\* chat-service call.  A caller may call it again after it returned or raised.
StartExchange(um) ==
    /\ pc \in {"idle", "done", "raised"}
    /\ exchanges < MaxExchanges
    /\ exchanges' = exchanges + 1
    /\ user_message' = um
    /\ messages' = << [role |-> "user", content |-> um] >>
    /\ chatMessages' = messages'
    /\ nChat' = 1
    /\ nBridge' = 0
    /\ response' = NoResponse
    /\ bridgeReq' = NoRequest
    /\ bridgeResp' = NoHttp
    /\ cdgArgs' = NoArgs
    /\ result' = NoResult
    /\ returned' = None
    /\ error' = None
    /\ pc' = "awaiting"
    /\ UNCHANGED << ANTHROPIC_API_KEY, conversation_id, bridgeCalled, lastRet,
                    lastNonEmptyRet >>

\* Variant: a response without a tool_use block ends the loop and the
\* function returns.
ToolLookupFails_Returns ==
    /\ returned' = None
    /\ pc' = "done"
    /\ UNCHANGED << cdgArgs, bridgeReq, nBridge, bridgeCalled, error >>

\* next(...) finds no tool_use block: StopIteration leaves chat_with_claude.
ToolLookupFails ==
    /\ error' = "StopIteration"
    /\ pc' = "raised"
    /\ UNCHANGED << cdgArgs, bridgeReq, nBridge, bridgeCalled, returned >>

\* The chat-service call returns resp: the loop test, then either the tool
\* lookup and the bridge POST, or the final return.
ChatReturns(resp) ==
    /\ pc = "awaiting"
    /\ resp.stop_reason = "tool_use" => nBridge < MaxToolRounds
    /\ response' = resp
    /\ IF resp.stop_reason = "tool_use"
       THEN IF HasToolUse(resp.content)
            THEN /\ cdgArgs' = [message |->
                                 FirstToolUse(resp.content).input.message,
                             conversation_id |-> conversation_id]
                 /\ bridgeReq' = call_david_gpt_request(
                                     cdgArgs'.message, cdgArgs'.conversation_id)
                 /\ nBridge' = nBridge + 1
                 /\ bridgeCalled' = TRUE
                 /\ pc' = "tool_requested"
                 /\ UNCHANGED << returned, error >>
            ELSE ToolLookupFails
       ELSE /\ returned' = FirstText(resp.content)
            /\ pc' = "done"
            /\ UNCHANGED << cdgArgs, bridgeReq, nBridge, bridgeCalled, error >>
    /\ UNCHANGED << ANTHROPIC_API_KEY, user_message, conversation_id, messages,
                    chatMessages, bridgeResp, result, nChat, exchanges, lastRet,
                    lastNonEmptyRet >>

\* Variant: the failed chat-service call is caught and made again.
ChatFails_Retry ==
    /\ pc = "awaiting"
    /\ error' = "APIError"
    /\ nChat' = nChat + 1
    /\ pc' = "awaiting"
    /\ UNCHANGED << ANTHROPIC_API_KEY, user_message, conversation_id, messages,
                    response, chatMessages, bridgeReq, bridgeResp, cdgArgs,
                    result, returned, nBridge, exchanges, bridgeCalled,
                    lastRet, lastNonEmptyRet >>

\* The chat-service call raises (transport or API error).
ChatFails ==
    /\ pc = "awaiting"
    /\ error' = "APIError"
    /\ pc' = "raised"
    /\ UNCHANGED << ANTHROPIC_API_KEY, user_message, conversation_id, messages,
                    response, chatMessages, bridgeReq, bridgeResp, cdgArgs,
                    result, returned, nChat, nBridge, exchanges, bridgeCalled,
                    lastRet, lastNonEmptyRet >>

\* The bridge POST is answered with http: the rest of call_david_gpt, then
\* the rest of the loop body up to the next chat-service call.
BridgeResponds(http) ==
    /\ pc = "tool_requested"
    /\ bridgeResp' = http
    /\ IF raise_for_status(http)
       THEN /\ error' = "HTTPError"
            /\ pc' = "raised"
            /\ UNCHANGED << conversation_id, messages, chatMessages, result,
                            nChat, lastRet, lastNonEmptyRet >>
       ELSE LET res == call_david_gpt_result(http.data) IN
            /\ result' = res
            /\ conversation_id' = StoreConversationId(conversation_id, res)
            /\ lastRet' = IF "conversation_id" \in DOMAIN http.data
                          THEN http.data.conversation_id ELSE lastRet
            /\ lastNonEmptyRet' =
                  IF "conversation_id" \in DOMAIN http.data
                     /\ http.data.conversation_id # ""
                  THEN http.data.conversation_id ELSE lastNonEmptyRet
            /\ IF PreviewRaises(res)
               THEN /\ error' = "TypeError"
                    /\ pc' = "raised"
                    /\ UNCHANGED << messages, chatMessages, nChat >>
               ELSE /\ messages' = AppendToolTurns(messages, response.content,
                                        FirstToolUse(response.content), res)
                    /\ chatMessages' = messages'
                    /\ nChat' = nChat + 1
                    /\ pc' = "awaiting"
                    /\ UNCHANGED error
    /\ UNCHANGED << ANTHROPIC_API_KEY, user_message, response, bridgeReq,
                    cdgArgs, returned, nBridge, exchanges, bridgeCalled >>

Next ==
    \/ Startup
    \/ \E um \in UserMessages : StartExchange(um)
    \/ \E resp \in Responses : ChatReturns(resp)
    \/ ChatFails
    \/ \E http \in HttpResponses : BridgeResponds(http)

Spec == Init /\ [][Next]_vars

(* ------------------- call_david_gpt on its own ------------------------ *)
\* The arguments the signature (message: str, conversation_id: str = None)
\* admits.
CallMessages == {"q1", "q2"}
CallIds == {None, "", "c1", "c2"}

\* call_david_gpt(message, cid) is entered and posts its request.
CallDavidGpt(message, cid) ==
    /\ pc \in {"idle", "cdg_returned", "cdg_raised"}
    /\ cdgArgs' = [message |-> message, conversation_id |-> cid]
    /\ bridgeReq' = call_david_gpt_request(message, cid)
    /\ nBridge' = 1
    /\ bridgeResp' = NoHttp
    /\ result' = NoResult
    /\ error' = None
    /\ pc' = "cdg_posted"
    /\ UNCHANGED << ANTHROPIC_API_KEY, user_message, conversation_id, messages,
                    response, chatMessages, returned, nChat, exchanges,
                    bridgeCalled, lastRet, lastNonEmptyRet >>

\* The POST is answered: raise_for_status, then the returned dictionary.
CallResponds(http) ==
    /\ pc = "cdg_posted"
    /\ bridgeResp' = http
    /\ IF raise_for_status(http)
       THEN /\ error' = "HTTPError"
            /\ pc' = "cdg_raised"
            /\ UNCHANGED result
       ELSE /\ result' = call_david_gpt_result(http.data)
            /\ pc' = "cdg_returned"
            /\ UNCHANGED error
    /\ UNCHANGED << ANTHROPIC_API_KEY, user_message, conversation_id, messages,
                    response, chatMessages, bridgeReq, cdgArgs, returned, nChat,
                    nBridge, exchanges, bridgeCalled, lastRet, lastNonEmptyRet >>

CallNext ==
    \/ Startup
    \/ \E m \in CallMessages, cid \in CallIds : CallDavidGpt(m, cid)
    \/ \E http \in HttpResponses : CallResponds(http)

CallSpec == Init /\ [][CallNext]_vars

(* ======================= properties of the loop ======================= *)
\* The identifier a bridge request carries, None when it carries none.
SentId(req) ==
    IF "conversation_id" \in DOMAIN req THEN req.conversation_id ELSE None

\* The earliest tool_use block of a content list, by block order.
IsFirstToolUseAt(content, i) ==
    /\ i \in 1..Len(content)
    /\ content[i].type = "tool_use"
    /\ \A j \in 1..(i - 1) : content[j].type # "tool_use"

\* The earliest text block of a content list, by block order.
IsFirstTextAt(content, i) ==
    /\ i \in 1..Len(content)
    /\ content[i].type = "text"
    /\ \A j \in 1..(i - 1) : content[j].type # "text"

\* Steps of the running exchange, told apart by what they change.
BridgeCallStep == exchanges' = exchanges /\ nBridge' # nBridge
LoopChatCallStep == exchanges' = exchanges /\ nChat' # nChat
ChatAnswerStep == pc = "awaiting" /\ pc' # pc /\ error' # "APIError"
BridgeAnswerStep == pc = "tool_requested" /\ pc' # pc
NewExchangeStep ==
    exchanges' = exchanges + 1 /\ pc' = "awaiting" /\ nChat' = 1 /\ nBridge' = 0

\* C1: within an exchange chat-service calls and bridge calls alternate.  A
\* bridge call is made only for a tool_use response, one per response, with
\* the message input of the response's first tool_use block and the session
\* identifier as it stands (none on the first bridge call of the run); a
\* later chat-service call is made only after one bridge call; when the
\* exchange returns, chat-service calls = bridge calls + 1.
C1_CallsAlternate ==
    [][ /\ BridgeCallStep =>
            /\ nBridge' = nBridge + 1
            /\ pc = "awaiting"
            /\ response'.stop_reason = "tool_use"
            /\ nChat' = nBridge'
            /\ \E i \in 1..Len(response'.content) :
                  /\ IsFirstToolUseAt(response'.content, i)
                  /\ bridgeReq'.message = response'.content[i].input.message
            /\ SentId(bridgeReq') = conversation_id
            /\ (~bridgeCalled => SentId(bridgeReq') = None)
        /\ LoopChatCallStep =>
            /\ nChat' = nChat + 1
            /\ pc = "tool_requested"
            /\ nBridge = nChat
            /\ nBridge' = nBridge
        /\ (ChatAnswerStep /\ response'.stop_reason = "tool_use"
              /\ pc' # "raised") => nBridge' = nBridge + 1
        /\ pc' = "awaiting" => nChat' = nBridge' + 1
        /\ pc' = "tool_requested" => nChat' = nBridge'
        /\ pc' = "done" => nChat' = nBridge' + 1
      ]_vars

C1_Witness ==
    /\ pc = "done"
    /\ nBridge = 2
    /\ nChat = 3
    /\ SentId(bridgeReq) = "c1"

\* C2 as claimed: once a 2xx bridge answer held an identifier X, the next
\* bridge call is a reply_to_conversation request carrying X.
C2_Original ==
    [][ (BridgeCallStep /\ lastRet # None) =>
            /\ bridgeReq'.action = "reply_to_conversation"
            /\ SentId(bridgeReq') = lastRet
      ]_vars

\* C2 amended: once a 2xx bridge answer held a non-empty identifier X, every
\* later bridge call of the run, in the same or a later exchange, is a
\* reply_to_conversation request, and it carries the latest non-empty
\* identifier a bridge answer held (X for the next call).
C2_NonEmptyIdIsSent ==
    [][ (nBridge' # nBridge /\ pc' = "tool_requested"
           /\ lastNonEmptyRet # None) =>
            /\ bridgeReq'.action = "reply_to_conversation"
            /\ "conversation_id" \in DOMAIN bridgeReq'
            /\ bridgeReq'.conversation_id = lastNonEmptyRet
      ]_vars

C2_Witness ==
    /\ pc = "tool_requested"
    /\ exchanges = 2
    /\ nBridge = 1
    /\ lastRet = ""
    /\ lastNonEmptyRet = "c2"
    /\ bridgeReq.action = "reply_to_conversation"
    /\ bridgeReq.conversation_id = "c2"

\* C3 as claimed: the session identifier is the identifier held by the most
\* recent 2xx bridge answer that held one, and None before any did.
C3_Original == conversation_id = lastRet

\* C3 amended: the session identifier is the latest non-empty identifier a
\* 2xx bridge answer held, None before any; it changes only in the step that
\* receives such an answer; an answer without an identifier, or with an empty
\* one, leaves it unchanged; once set it is never None again.
C3_LastWriteWins ==
    [][ /\ conversation_id' = lastNonEmptyRet'
        /\ conversation_id' # conversation_id =>
              /\ BridgeAnswerStep
              /\ bridgeResp'.status = 200
              /\ "conversation_id" \in DOMAIN bridgeResp'.data
              /\ bridgeResp'.data.conversation_id # ""
              /\ conversation_id' = bridgeResp'.data.conversation_id
        /\ (BridgeAnswerStep /\ bridgeResp'.status = 200
              /\ "conversation_id" \in DOMAIN bridgeResp'.data
              /\ bridgeResp'.data.conversation_id # "") =>
              conversation_id' = bridgeResp'.data.conversation_id
        /\ conversation_id # None => conversation_id' # None
      ]_vars

C3_Witness ==
    /\ pc = "awaiting"
    /\ conversation_id = "c1"
    /\ bridgeResp.status = 200
    /\ "conversation_id" \notin DOMAIN bridgeResp.data
    /\ nBridge = 2

\* C4: within an exchange the transcript passed to a chat-service call after
\* the first is the transcript of the previous call followed by exactly two
\* turns: the assistant turn holding the previous response's content blocks,
\* then a tool-result turn holding the bridge's response text.  No other step
\* of the exchange changes the transcript.
C4_TranscriptAppendOnly ==
    [][ exchanges' = exchanges =>
          /\ nChat' = nChat => (chatMessages' = chatMessages
                                  /\ messages' = messages)
          /\ nChat' # nChat =>
               LET n == Len(chatMessages) IN
               /\ Len(chatMessages') = n + 2
               /\ SubSeq(chatMessages', 1, n) = chatMessages
               /\ chatMessages'[n + 1] =
                     [role |-> "assistant", content |-> response.content]
               /\ chatMessages'[n + 2].role = "user"
               /\ Len(chatMessages'[n + 2].content) = 1
               /\ chatMessages'[n + 2].content[1].type = "tool_result"
               /\ "response" \in DOMAIN bridgeResp'.data
               /\ chatMessages'[n + 2].content[1].content =
                     bridgeResp'.data.response
               /\ messages' = chatMessages'
      ]_vars

C4_Witness ==
    /\ pc = "awaiting"
    /\ Len(chatMessages) = 5
    /\ chatMessages[3].content[1].content = "r1"
    /\ chatMessages[5].content[1].content = "r2"

\* C5: a response whose stop reason is not tool_use ends the exchange: no
\* bridge call and no further chat-service call is made, and the value
\* returned is the text of the first text block of that response.
C5_TerminalReturnsFirstText ==
    [][ /\ (ChatAnswerStep /\ response'.stop_reason # "tool_use") =>
            /\ pc' = "done"
            /\ nBridge' = nBridge
            /\ nChat' = nChat
            /\ bridgeReq' = bridgeReq
            /\ \A i \in 1..Len(response'.content) :
                  IsFirstTextAt(response'.content, i) =>
                      returned' = response'.content[i].text
        /\ pc = "done" => NewExchangeStep
      ]_vars

C5_Witness ==
    /\ pc = "done"
    /\ response.content = <<U1, T2, U2>>
    /\ returned = "t2"
    /\ nBridge = 1

C7_StateMachine ==
    [][ /\ ChatAnswerStep =>
            /\ (pc' = "done") <=> (response'.stop_reason # "tool_use")
            /\ response'.stop_reason = "tool_use" =>
                  \/ pc' = "tool_requested"
                  \/ pc' = "raised" /\ error' = "StopIteration"
        /\ (BridgeAnswerStep /\ bridgeResp'.status \in 200..299) =>
            /\ pc' = "awaiting"
            /\ nChat' = nChat + 1
            /\ Len(messages') = Len(messages) + 2
        /\ pc = "done" => NewExchangeStep
      ]_vars

\* C8: an exchange ends with an error only when an external call failed (the
\* chat-service call raised, the bridge answered with an error status) or the
\* chat service sent a tool_use answer without a tool_use block; otherwise
\* the loop keeps calling until the first terminal answer and returns.
C8_EndsOnlyByReturn ==
    pc = "raised" => error \in {"APIError", "HTTPError", "StopIteration"}

\* C10: of a tool_use response with several content blocks only the first
\* tool_use block is acted on: one bridge call with that block's message
\* input, one tool-result turn keyed to that block's id, and an assistant
\* turn carrying every content block of the response.
C10_OnlyFirstToolUse ==
    [][ /\ BridgeCallStep =>
            /\ nBridge' = nBridge + 1
            /\ \E i \in 1..Len(response'.content) :
                  /\ IsFirstToolUseAt(response'.content, i)
                  /\ bridgeReq'.message = response'.content[i].input.message
        /\ LoopChatCallStep =>
            LET n == Len(messages) IN
            /\ nBridge' = nBridge
            /\ Len(messages') = n + 2
            /\ messages'[n + 1].role = "assistant"
            /\ messages'[n + 1].content = response.content
            /\ Len(messages'[n + 2].content) = 1
            /\ messages'[n + 2].content[1].type = "tool_result"
            /\ \E i \in 1..Len(response.content) :
                  /\ IsFirstToolUseAt(response.content, i)
                  /\ messages'[n + 2].content[1].tool_use_id =
                        response.content[i].id
      ]_vars

C10_Witness ==
    /\ pc = "awaiting"
    /\ response.content = <<U2, U1>>
    /\ bridgeReq.message = "q2"
    /\ nBridge = 1
    /\ Len(messages) = 3
    /\ messages[2].content = <<U2, U1>>
    /\ messages[3].content[1].tool_use_id = "tu2"

ExpectedRequest(message, cid) ==
    IF cid \in {None, ""}
    THEN [action |-> "new_conversation", message |-> message,
          persona |-> "david"]
    ELSE [action |-> "reply_to_conversation", conversation_id |-> cid,
          message |-> message]

\* C11: the tool name is not validated.  A tool_use response whose first
\* tool_use block names any tool, declared or not, leads to one bridge call
\* with that block's message input; the turns appended afterwards and the
\* session identifier are determined by the response content, the block's id
\* and the bridge answer alone, as they are for ask_david_gpt.
C11_ToolNameNotValidated ==
    [][ /\ (ChatAnswerStep /\ response'.stop_reason = "tool_use") =>
            \A i \in 1..Len(response'.content) :
                IsFirstToolUseAt(response'.content, i) =>
                    /\ pc' = "tool_requested"
                    /\ nBridge' = nBridge + 1
                    /\ bridgeReq' = ExpectedRequest(
                           response'.content[i].input.message, conversation_id)
        /\ (BridgeAnswerStep /\ bridgeResp'.status = 200
              /\ "response" \in DOMAIN bridgeResp'.data) =>
            \A i \in 1..Len(response.content) :
                IsFirstToolUseAt(response.content, i) =>
                    /\ pc' = "awaiting"
                    /\ messages' = messages \o
                         << [role |-> "assistant", content |-> response.content],
                            [role |-> "user",
                             content |-> << [type |-> "tool_result",
                                 tool_use_id |-> response.content[i].id,
                                 content |-> bridgeResp'.data.response] >>] >>
                    /\ conversation_id' =
                         IF "conversation_id" \in DOMAIN bridgeResp'.data
                            /\ bridgeResp'.data.conversation_id # ""
                         THEN bridgeResp'.data.conversation_id
                         ELSE conversation_id
      ]_vars

C11_Witness ==
    /\ pc = "awaiting"
    /\ nChat = 2
    /\ response.content = <<U2, U1>>
    /\ response.content[1].name = "other_tool"
    /\ bridgeReq = [action |-> "new_conversation", message |-> "q2",
                    persona |-> "david"]
    /\ messages[3].content[1].tool_use_id = "tu2"
    /\ conversation_id = "c1"

\* C12: a failed chat-service call, the first of an exchange or a later one,
\* leaves chat_with_claude as the error it is: no retry, no bridge call, no
\* further chat-service call in that exchange, nothing appended or returned,
\* and the session identifier keeps the value the earlier bridge calls stored.
C12_ChatErrorPropagates ==
    [][ /\ (pc = "awaiting" /\ error' = "APIError") =>
            /\ pc' = "raised"
            /\ nChat' = nChat
            /\ nBridge' = nBridge
            /\ bridgeReq' = bridgeReq
            /\ messages' = messages
            /\ returned' = None
            /\ conversation_id' = conversation_id
            /\ conversation_id' = lastNonEmptyRet'
        /\ (pc = "raised" /\ error = "APIError") =>
            /\ NewExchangeStep
            /\ conversation_id' = conversation_id
      ]_vars

C12_Witness ==
    /\ pc = "raised"
    /\ error = "APIError"
    /\ exchanges = 1
    /\ nChat = 2
    /\ nBridge = 1
    /\ bridgeResp.status = 200
    /\ conversation_id = "c2"

\* C13: with the chat-service credential absent at startup the program
\* fails with ValueError before any network activity: no exchange starts and
\* no chat-service call and no bridge call is ever made in that run.
C13_NoCredentialNoNetwork ==
    ANTHROPIC_API_KEY = None =>
        /\ pc \in {"startup", "fatal"}
        /\ pc = "fatal" => error = "ValueError"
        /\ exchanges = 0
        /\ nChat = 0
        /\ nBridge = 0
        /\ ~bridgeCalled
        /\ chatMessages = <<>>
        /\ bridgeReq = [action |-> "none"]

C13_Witness ==
    /\ ANTHROPIC_API_KEY = None
    /\ pc = "fatal"
    /\ error = "ValueError"
    /\ nChat = 0
    /\ nBridge = 0

\* C14: every call of chat_with_claude starts from a fresh transcript.  The
\* first chat-service call of an exchange gets exactly one turn, the user
\* message of that exchange, however many exchanges ran before; throughout
\* the exchange the transcript holds that turn and the two turns of each of
\* its own tool rounds, nothing of an earlier exchange; the session
\* identifier is carried over unchanged.
C14_FreshTranscript ==
    [][ /\ exchanges' # exchanges =>
            /\ exchanges' = exchanges + 1
            /\ user_message' \in UserMessages
            /\ chatMessages' = << [role |-> "user", content |-> user_message'] >>
            /\ messages' = chatMessages'
            /\ nChat' = 1
            /\ response' = [stop_reason |-> "none", content |-> <<>>]
            /\ returned' = None
            /\ error' = None
            /\ conversation_id' = conversation_id
        /\ pc' \in {"awaiting", "tool_requested", "done", "raised"} =>
            /\ chatMessages'[1] = [role |-> "user", content |-> user_message']
            /\ Len(chatMessages') = 2 * nChat' - 1
      ]_vars

C14_Witness ==
    /\ exchanges = 2
    /\ pc = "awaiting"
    /\ nChat = 1
    /\ user_message = "m2"
    /\ chatMessages = << [role |-> "user", content |-> "m2"] >>
    /\ conversation_id = "c1"

\* C15: a failed bridge call changes no state.  When the bridge answers with
\* an error status the session identifier is what it was before the call,
\* whatever the error body holds, and no turn is appended; the identifier
\* then stays until a later 2xx bridge answer, so the first bridge call of a
\* later exchange sends the identifier stored before the failure.
C15_FailedBridgeCallKeepsState ==
    [][ /\ (BridgeAnswerStep /\ bridgeResp'.status \notin 200..299) =>
            /\ conversation_id' = conversation_id
            /\ messages' = messages
            /\ chatMessages' = chatMessages
            /\ result' = result
        /\ (pc = "raised" /\ error = "HTTPError") =>
            /\ NewExchangeStep
            /\ conversation_id' = conversation_id
        /\ conversation_id' # conversation_id =>
            BridgeAnswerStep /\ bridgeResp'.status \in 200..299
        /\ BridgeCallStep => SentId(bridgeReq') = conversation_id
      ]_vars

C15_Witness ==
    /\ pc = "raised"
    /\ error = "HTTPError"
    /\ bridgeResp.status = 500
    /\ "conversation_id" \in DOMAIN bridgeResp.data
    /\ bridgeResp.data.conversation_id = "c2"
    /\ conversation_id = "c1"
    /\ SentId(bridgeReq) = "c1"
    /\ Len(messages) = 3

\* C16: a response with stop reason tool_use and no tool_use block makes
\* chat_with_claude abort with the error of the block lookup: no bridge call
\* is made, nothing is appended, the session identifier is unchanged and no
\* further chat-service call is made.
C16_MissingToolBlockAborts ==
    [][ /\ (ChatAnswerStep /\ response'.stop_reason = "tool_use"
              /\ \A i \in 1..Len(response'.content) :
                    response'.content[i].type # "tool_use") =>
            /\ pc' = "raised"
            /\ error' = "StopIteration"
            /\ returned' = None
            /\ nBridge' = nBridge
            /\ bridgeReq' = bridgeReq
            /\ bridgeCalled' = bridgeCalled
            /\ nChat' = nChat
            /\ messages' = messages
            /\ chatMessages' = chatMessages
            /\ conversation_id' = conversation_id
        /\ (pc = "raised" /\ error = "StopIteration") => NewExchangeStep
      ]_vars

C16_Witness ==
    /\ pc = "raised"
    /\ error = "StopIteration"
    /\ response = [stop_reason |-> "tool_use", content |-> <<T2, T1>>]
    /\ nChat = 2
    /\ nBridge = 1
    /\ Len(messages) = 3
    /\ conversation_id = "c1"

\* C17: a terminal response without a text block, an empty content list
\* included, makes chat_with_claude return None normally: no error is
\* raised and no bridge call is made.
C17_NoTextReturnsNone ==
    [][ (ChatAnswerStep /\ response'.stop_reason # "tool_use"
           /\ \A i \in 1..Len(response'.content) :
                 response'.content[i].type # "text") =>
            /\ pc' = "done"
            /\ returned' = None
            /\ error' = None
            /\ nBridge' = nBridge
            /\ bridgeReq' = bridgeReq
            /\ nChat' = nChat
      ]_vars

C17_Witness ==
    /\ pc = "done"
    /\ response.stop_reason = "end_turn"
    /\ response.content = <<>>
    /\ returned = None
    /\ error = None
    /\ nBridge = 0

=============================================================================
